---------------------------- MODULE Spec2Model ----------------------------
(***************************************************************************)
(* TRACS two-pass assembler (src/assembler.c).                             *)
(*                                                                         *)
(* C strings are modelled as sequences of one-character strings, so that   *)
(* strcmp, strncmp, isdigit, strtoul and the %02x conversion are computed  *)
(* character by character as the C library computes them.  A LINE is a     *)
(* record of three strings (label, operation, operand); lines[i] of the C  *)
(* code is lines[i + 1] here (sequences are 1-based).                      *)
(*                                                                         *)
(* assemble() is one run from "start" to "done"; its numbered steps        *)
(* (Step 1 .. Step 4, the operation check, fopen, the print loop) are the  *)
(* actions.  printf output is the sequence console, fprintf output is the  *)
(* sequence translation (the content of translation.txt).                  *)
(***************************************************************************)
EXTENDS Integers, Sequences, FiniteSets, TLC

VARIABLES
    script,              \* the rows sscanf reads from script.asm
    pc,                  \* position inside assemble()
    lines,               \* LINE *lines
    address,             \* unsigned int address
    temp_address,        \* unsigned int temp_address
    hasEOP,              \* bool hasEOP
    labels,              \* LABEL labels[]; label_count is Len(labels)
    hasInvalidLabel,     \* bool hasInvalidLabel
    hasInvalidOperation, \* bool hasInvalidOperation
    output_file,         \* "closed", "open" or "null": FILE *output_file
    translation,         \* lines written to translation.txt
    console,             \* messages written with printf
    ret                  \* return value of assemble(); -1 while running

vars == <<script, pc, lines, address, temp_address, hasEOP, labels,
          hasInvalidLabel, hasInvalidOperation, output_file, translation,
          console, ret>>

-----------------------------------------------------------------------------
(* Bounds of the model *)

MaxLines == 3

-----------------------------------------------------------------------------
(* C strings *)

EmptyStr == <<>>

s_ORG  == <<"O","R","G">>
s_EOP  == <<"E","O","P">>
s_WB   == <<"W","B">>
s_WM   == <<"W","M">>
s_RM   == <<"R","M">>
s_WACC == <<"W","A","C","C">>
s_WIB  == <<"W","I","B">>
s_WIO  == <<"W","I","O">>
s_RACC == <<"R","A","C","C">>
s_ADD  == <<"A","D","D">>
s_SUB  == <<"S","U","B">>
s_MUL  == <<"M","U","L">>
s_AND  == <<"A","N","D">>
s_OR   == <<"O","R">>
s_NOT  == <<"N","O","T">>
s_XOR  == <<"X","O","R">>
s_SHL  == <<"S","H","L">>
s_SHR  == <<"S","H","R">>
s_BR   == <<"B","R">>
s_BRE  == <<"B","R","E">>
s_BRNE == <<"B","R","N","E">>
s_BRGT == <<"B","R","G","T">>
s_BRLT == <<"B","R","L","T">>
s_SWAP == <<"S","W","A","P">>

\* strcmp(a, b) == 0
StrEq(a, b) == a = b

\* strncmp(s, "0x", 2) == 0
Has0xPrefix(s) == Len(s) >= 2 /\ s[1] = "0" /\ s[2] = "x"

\* s + n for n <= strlen(s): the string that starts n characters into s
Skip(s, n) == SubSeq(s, n + 1, Len(s))

\* isdigit(c)
IsDigit(c) == c \in {"0","1","2","3","4","5","6","7","8","9"}

\* value of c as a digit of a base-36 numeral, -1 when c is no digit
DigitVal(c) ==
    CASE c = "0" -> 0  [] c = "1" -> 1  [] c = "2" -> 2  [] c = "3" -> 3
      [] c = "4" -> 4  [] c = "5" -> 5  [] c = "6" -> 6  [] c = "7" -> 7
      [] c = "8" -> 8  [] c = "9" -> 9
      [] c \in {"a","A"} -> 10  [] c \in {"b","B"} -> 11
      [] c \in {"c","C"} -> 12  [] c \in {"d","D"} -> 13
      [] c \in {"e","E"} -> 14  [] c \in {"f","F"} -> 15
      [] OTHER -> -1

\* the digits of s in the given base are converted until the first
\* character that is no digit of that base
RECURSIVE Digits(_, _, _)
Digits(s, base, acc) ==
    IF s = EmptyStr \/ DigitVal(Head(s)) < 0 \/ DigitVal(Head(s)) >= base
    THEN acc
    ELSE Digits(Tail(s), base, acc * base + DigitVal(Head(s)))

\* s starts with "0x" or "0X" and a hexadecimal digit follows
HexIntro(s) ==
    /\ Len(s) >= 3
    /\ s[1] = "0"
    /\ s[2] \in {"x", "X"}
    /\ DigitVal(s[3]) >= 0 /\ DigitVal(s[3]) < 16

\* strtoul(s, NULL, 16): an optional 0x/0X, then hexadecimal digits.
\* (Tokens of the model hold no white space and no sign character.)
strtoul16(s) ==
    IF HexIntro(s) THEN Digits(Skip(s, 2), 16, 0) ELSE Digits(s, 16, 0)

\* strtol(s, NULL, 0): 0x/0X introduces base 16, a leading 0 base 8,
\* anything else is base 10
strtol0(s) ==
    IF HexIntro(s) THEN Digits(Skip(s, 2), 16, 0)
    ELSE IF Len(s) >= 1 /\ s[1] = "0" THEN Digits(s, 8, 0)
    ELSE Digits(s, 10, 0)

HexChar(d) ==
    <<"0","1","2","3","4","5","6","7","8","9","a","b","c","d","e","f">>[d + 1]

RECURSIVE HexDigits(_)
HexDigits(n) ==
    IF n < 16 THEN <<HexChar(n)>>
    ELSE Append(HexDigits(n \div 16), HexChar(n % 16))

\* printf conversion "0x%02x" of a non-negative value
Fmt0x02x(n) ==
    <<"0", "x">> \o (IF n < 16 THEN <<"0">> ELSE EmptyStr) \o HexDigits(n)

\* a | b on non-negative integers
RECURSIVE BitOr(_, _)
BitOr(a, b) ==
    IF a = 0 THEN b
    ELSE IF b = 0 THEN a
    ELSE 2 * BitOr(a \div 2, b \div 2) + (IF a % 2 = 1 \/ b % 2 = 1 THEN 1 ELSE 0)

-----------------------------------------------------------------------------
(* get_opcode *)

OPOBJ(opcode, addBoolean) == [opcode |-> opcode, addBoolean |-> addBoolean]

\* The instruction table.  For an unknown instruction opcode is -1 and
\* addBoolean is left unset by the code; no caller reads it in that case.
get_opcode(instruction) ==
    CASE instruction = s_WB   -> OPOBJ(48, FALSE)
      [] instruction = s_WM   -> OPOBJ(8, TRUE)
      [] instruction = s_RM   -> OPOBJ(16, TRUE)
      [] instruction = s_WACC -> OPOBJ(72, FALSE)
      [] instruction = s_WIB  -> OPOBJ(56, FALSE)
      [] instruction = s_WIO  -> OPOBJ(40, TRUE)
      [] instruction = s_RACC -> OPOBJ(88, FALSE)
      [] instruction = s_ADD  -> OPOBJ(240, FALSE)
      [] instruction = s_SUB  -> OPOBJ(232, FALSE)
      [] instruction = s_MUL  -> OPOBJ(216, FALSE)
      [] instruction = s_AND  -> OPOBJ(208, FALSE)
      [] instruction = s_OR   -> OPOBJ(200, FALSE)
      [] instruction = s_NOT  -> OPOBJ(192, FALSE)
      [] instruction = s_XOR  -> OPOBJ(184, FALSE)
      [] instruction = s_SHL  -> OPOBJ(176, FALSE)
      [] instruction = s_SHR  -> OPOBJ(168, FALSE)
      [] instruction = s_BR   -> OPOBJ(24, TRUE)
      [] instruction = s_BRE  -> OPOBJ(160, TRUE)
      [] instruction = s_BRNE -> OPOBJ(152, TRUE)
      [] instruction = s_BRGT -> OPOBJ(144, TRUE)
      [] instruction = s_BRLT -> OPOBJ(136, TRUE)
      [] instruction = s_EOP  -> OPOBJ(248, FALSE)
      [] instruction = s_SWAP -> OPOBJ(112, FALSE)
      [] OTHER -> OPOBJ(-1, FALSE)

\* the test of lines 113 and 163: the operation is BR, BRE, BRNE, BRGT or BRLT
IsBranch(operation) ==
    \/ StrEq(operation, s_BR)
    \/ StrEq(operation, s_BRE)
    \/ StrEq(operation, s_BRNE)
    \/ StrEq(operation, s_BRGT)
    \/ StrEq(operation, s_BRLT)

-----------------------------------------------------------------------------
(* process_file *)

LINE(label, operation, operand) ==
    [label |-> label, operation |-> operation, operand |-> operand]

\* the names the format correction compares the label field with
CorrectedNames ==
    {s_WM, s_RM, s_WACC, s_WIB, s_WIO, s_RACC, s_ADD, s_SUB, s_MUL, s_AND,
     s_OR, s_NOT, s_XOR, s_SHL, s_SHR, s_BR, s_BRE, s_BRNE, s_BRGT, s_BRLT,
     s_EOP, s_SWAP, s_WB}

\* Format correction: a label field that is a mnemonic is no label, the
\* fields move one place to the right
FormatCorrection(l) ==
    IF l.label # EmptyStr /\ l.label \in CorrectedNames
    THEN LINE(EmptyStr, l.label, l.operation)
    ELSE l

NotBlank(l) ==
    l.label # EmptyStr \/ l.operation # EmptyStr \/ l.operand # EmptyStr

\* the array process_file returns for the rows read from the file
process_file(rows) ==
    SelectSeq([i \in 1..Len(rows) |-> FormatCorrection(rows[i])], NotBlank)

-----------------------------------------------------------------------------
(* set_address *)

\* the first line whose label is "ORG" gives the address, 0 when none does
RECURSIVE set_address_from(_, _)
set_address_from(ls, i) ==
    IF i >= Len(ls) THEN 0
    ELSE IF StrEq(ls[i + 1].label, s_ORG) THEN strtol0(ls[i + 1].operation)
    ELSE set_address_from(ls, i + 1)

set_address(ls) == set_address_from(ls, 0)

-----------------------------------------------------------------------------
(* Step 3: the label table *)

LABEL(label, addr) == [label |-> label, address |-> addr]

\* the body of the loop of lines 63-73 from index i on; st holds
\* hasEOP, labels and temp_address
RECURSIVE LabelLoop(_, _, _)
LabelLoop(ls, i, st) ==
    IF i >= Len(ls) THEN st
    ELSE LET l == ls[i + 1]
             eop == StrEq(l.label, s_EOP) \/ StrEq(l.operation, s_EOP)
         IN  LabelLoop(ls, i + 1,
                [hasEOP |-> st.hasEOP \/ eop,
                 labels |-> IF l.label # EmptyStr
                            THEN Append(st.labels, LABEL(l.label, st.temp_address))
                            ELSE st.labels,
                 temp_address |-> st.temp_address + 2])

\* the search with the bug of keeping the last entry with that name: the
\* loop without its "break"
FirstMatch_Last(name, labs) ==
    IF \E j \in 1..Len(labs) : StrEq(name, labs[j].label)
    THEN CHOOSE j \in 1..Len(labs) :
            /\ StrEq(name, labs[j].label)
            /\ \A k \in (j + 1)..Len(labs) : ~StrEq(name, labs[k].label)
    ELSE 0

\* the search loop "for j .. if strcmp(name, labels[j].label) == 0 .. break":
\* the index of the first entry with that name, 0 when there is none
FirstMatch(name, labs) ==
    IF \E j \in 1..Len(labs) : StrEq(name, labs[j].label)
    THEN CHOOSE j \in 1..Len(labs) :
            /\ StrEq(name, labs[j].label)
            /\ \A k \in 1..(j - 1) : ~StrEq(name, labs[k].label)
    ELSE 0

labelFound(name, labs) == FirstMatch(name, labs) # 0

-----------------------------------------------------------------------------
(* Step 4: operands that are no label *)

Msg(kind, arg) == [msg |-> kind, arg |-> arg]

\* the condition of lines 84 and 115: the operand is there and is no 0x literal
IsLabelOperand(operand) == operand # EmptyStr /\ ~Has0xPrefix(operand)

\* the messages the loop of lines 83-97 prints from index i on
RECURSIVE UnknownLabelLoop(_, _, _)
UnknownLabelLoop(ls, labs, i) ==
    IF i >= Len(ls) THEN <<>>
    ELSE LET l == ls[i + 1]
             bad == IsLabelOperand(l.operand) /\ ~labelFound(l.operand, labs)
         IN  (IF bad THEN <<Msg("Error: Unknown Label", l.operand)>> ELSE <<>>)
             \o UnknownLabelLoop(ls, labs, i + 1)

\* the messages the loop of lines 105-130 prints from index i on
RECURSIVE OperationLoop(_, _, _)
OperationLoop(ls, labs, i) ==
    IF i >= Len(ls) THEN <<>>
    ELSE LET l == ls[i + 1]
             op == get_opcode(l.operation)
             illegal == /\ ~IsBranch(l.operation)
                        /\ IsLabelOperand(l.operand)
                        /\ labelFound(l.operand, labs)
         IN  (IF op.opcode = -1
              THEN <<Msg("Invalid instruction", l.label)>> ELSE <<>>)
             \o (IF illegal
                 THEN <<Msg("Error: Invalid operand for instruction", l.operation)>>
                 ELSE <<>>)
             \o OperationLoop(ls, labs, i + 1)

-----------------------------------------------------------------------------
(* The print loop: lines 144-217 *)

\* one line "0xAA 0xBB\t0xCC 0xDD\n" of translation.txt, field by field
CodeLine(addr0, byte0, addr1, byte1) ==
    [tag |-> "code", addr0 |-> addr0, byte0 |-> byte0,
     addr1 |-> addr1, byte1 |-> byte1]

\* the line "0xAA 0xBB\tUnknown Label: <operand> Writing opcode <operation>\n"
UnknownLine(addr0, byte0, operand, operation) ==
    [tag |-> "unknown", addr0 |-> addr0, byte0 |-> byte0,
     operand |-> operand, operation |-> operation]

\* the loop of lines 200-207: operand[k] for k >= 2 are all decimal digits
OnlyDigitsAfterPrefix(operand) ==
    \A k \in 3..Len(operand) : IsDigit(operand[k])

\* lines 153-179 with the bug of writing the low byte of concat for a
\* branch too, instead of the address of the label
EncodedOperand_LowByte(l, op, labs, stale, addr) ==
    LET shifted == op.opcode * 256
        operand_int == strtoul16(IF Len(l.operand) < 2 THEN stale
                                 ELSE Skip(l.operand, 2))
        concat == BitOr(shifted, operand_int)
    IN  <<CodeLine(Fmt0x02x(addr), Fmt0x02x((concat \div 256) % 256),
                   Fmt0x02x(addr + 1), Fmt0x02x(concat % 256))>>

\* lines 153-179: the instruction carries its operand in the second byte
EncodedOperand(l, op, labs, stale, addr) ==
    LET shifted == op.opcode * 256
        operand_int == strtoul16(IF Len(l.operand) < 2 THEN stale
                                 ELSE Skip(l.operand, 2))
        concat == BitOr(shifted, operand_int)
        first == (concat \div 256) % 256
        second == concat % 256
        j == FirstMatch(l.operand, labs)
    IN  IF IsBranch(l.operation)
        THEN IF j # 0
             THEN <<CodeLine(Fmt0x02x(addr), Fmt0x02x(first),
                             Fmt0x02x(addr + 1), Fmt0x02x(labs[j].address))>>
             ELSE <<>>
        ELSE <<CodeLine(Fmt0x02x(addr), Fmt0x02x(first),
                        Fmt0x02x(addr + 1), Fmt0x02x(second))>>

\* lines 180-215: the opcode byte, then the operand field resolved
PlainOperand(l, op, labs, addr) ==
    LET j == FirstMatch(l.operand, labs)
        a0 == Fmt0x02x(addr)
        b0 == Fmt0x02x(op.opcode)
        a1 == Fmt0x02x(addr + 1)
    IN  IF j # 0
        THEN <<CodeLine(a0, b0, a1, Fmt0x02x(labs[j].address))>>
        ELSE IF l.operand = EmptyStr
        THEN <<CodeLine(a0, b0, a1, <<"0","x","0","0">>)>>
        ELSE IF Has0xPrefix(l.operand) /\ OnlyDigitsAfterPrefix(l.operand)
        THEN <<CodeLine(a0, b0, a1, l.operand)>>
        ELSE <<UnknownLine(a0, b0, l.operand, l.operation)>>

\* what one iteration of the print loop writes for line l at address addr
EncodeLine(l, labs, stale, addr) ==
    LET op == get_opcode(l.operation)
    IN  IF op.addBoolean
        THEN EncodedOperand(l, op, labs, stale, addr)
        ELSE PlainOperand(l, op, labs, addr)

\* the loop from index i on; st holds what was written, what was printed
\* and address; stale is what lies behind the terminator of a short operand.  An unknown instruction is skipped with "continue", which
\* also skips "address += 2".
RECURSIVE PrintLoop(_, _, _, _, _)
PrintLoop(ls, labs, stale, i, st) ==
    IF i >= Len(ls) THEN st
    ELSE LET l == ls[i + 1]
         IN  IF get_opcode(l.operation).opcode = -1
             THEN PrintLoop(ls, labs, stale, i + 1,
                    [st EXCEPT !.printed =
                        Append(@, Msg("Invalid instruction", l.operation))])
             ELSE PrintLoop(ls, labs, stale, i + 1,
                    [st EXCEPT !.written =
                                  @ \o EncodeLine(l, labs, stale, st.address),
                               !.address = @ + 2])

-----------------------------------------------------------------------------
(* The source files the model assembles *)

t_L1   == <<"L","1">>
t_L2   == <<"L","2">>
t_UNK  == <<"U","N","K">>
t_FOO  == <<"F","O","O">>
t_0x05 == <<"0","x","0","5">>
t_0x0a == <<"0","x","0","a">>
t_0x10 == <<"0","x","1","0">>
t_0x1ff == <<"0","x","1","f","f">>
t_0xZZ == <<"0","x","Z","Z">>

\* A row is what sscanf("%s %s %s") stores for one line of the file: the
\* first token in label, the second in operation, the third in operand.
Rows ==
    { LINE(s_ORG,  t_0x10,  EmptyStr),   \* ORG 0x10
      LINE(t_L1,   s_WB,    t_0x05),     \* L1 WB 0x05
      LINE(s_WB,   t_0x0a,  EmptyStr),   \* WB 0x0a
      LINE(s_WB,   t_0xZZ,  EmptyStr),   \* WB 0xZZ
      LINE(s_ADD,  t_L1,    EmptyStr),   \* ADD L1
      LINE(s_WM,   t_0x05,  EmptyStr),   \* WM 0x05
      LINE(s_WM,   t_0x1ff, EmptyStr),   \* WM 0x1ff
      LINE(s_WM,   EmptyStr, EmptyStr),  \* WM
      LINE(s_BR,   t_L1,    EmptyStr),   \* BR L1
      LINE(s_BR,   t_0x10,  EmptyStr),   \* BR 0x10
      LINE(t_L1,   s_BRNE,  t_L2),       \* L1 BRNE L2
      LINE(t_L1,   s_BR,    t_L1),       \* L1 BR L1
      LINE(t_L1,   t_FOO,   EmptyStr),   \* L1 FOO
      LINE(s_EOP,  EmptyStr, EmptyStr),  \* EOP
      LINE(s_EOP,  t_UNK,   EmptyStr),   \* EOP UNK
      LINE(t_L1,   s_EOP,   EmptyStr),   \* L1 EOP
      LINE(t_L2,   s_EOP,   EmptyStr),   \* L2 EOP
      LINE(t_0x05, s_EOP,   EmptyStr) }  \* 0x05 EOP

\* the rows the model puts on the first line of the file
FirstRows ==
    { LINE(s_ORG,  t_0x10,  EmptyStr),   \* ORG 0x10
      LINE(t_L1,   s_EOP,   EmptyStr),   \* L1 EOP
      LINE(s_WB,   t_UNK,   EmptyStr) }  \* WB UNK

Scripts ==
    {<<>>} \cup
    UNION { { <<f>> \o rest : f \in FirstRows, rest \in [1..n -> Rows] }
            : n \in 0..(MaxLines - 1) }

\* what a read of operand + 2 finds when the operand is shorter than two
\* characters: the bytes behind the terminator were never written or hold
\* the rest of an earlier token
Stale == { EmptyStr, <<"1","f","f">> }

-----------------------------------------------------------------------------
(* assemble *)

Init ==
    /\ script \in Scripts
    /\ pc = "start"
    /\ lines = <<>>
    /\ address = 0
    /\ temp_address = 0
    /\ hasEOP = FALSE
    /\ labels = <<>>
    /\ hasInvalidLabel = FALSE
    /\ hasInvalidOperation = FALSE
    /\ output_file = "closed"
    /\ translation = <<>>
    /\ console = <<>>
    /\ ret = -1

\* return success (0) from one of the early exits
Fail(messages) ==
    /\ console' = console \o messages
    /\ ret' = 0
    /\ pc' = "done"

\* Step 1, lines 46-57: the file is read and every line is printed
ProcessFile ==
    /\ pc = "start"
    /\ lines' = process_file(script)
    /\ console' = console \o
          [i \in 1..Len(process_file(script)) |->
              Msg("Label, Operation, Operand", process_file(script)[i])]
    /\ pc' = "step2"
    /\ UNCHANGED <<script, address, temp_address, hasEOP, labels,
                   hasInvalidLabel, hasInvalidOperation, output_file,
                   translation, ret>>

\* lines 47-50 and 256-268: process_file returns NULL
ProcessFileNull ==
    /\ pc = "start"
    /\ Fail(<<Msg("Error reading lines", EmptyStr)>>)
    /\ UNCHANGED <<script, lines, address, temp_address, hasEOP, labels,
                   hasInvalidLabel, hasInvalidOperation, output_file,
                   translation>>

\* Step 2, lines 59-60
SetAddress ==
    /\ pc = "step2"
    /\ address' = set_address(lines)
    /\ temp_address' = set_address(lines)
    /\ pc' = "step3"
    /\ UNCHANGED <<script, lines, hasEOP, labels, hasInvalidLabel,
                   hasInvalidOperation, output_file, translation, console, ret>>

\* Step 3, lines 63-73
BuildLabels ==
    /\ pc = "step3"
    /\ LET st == LabelLoop(lines, 1, [hasEOP |-> hasEOP, labels |-> labels,
                                      temp_address |-> temp_address])
       IN  /\ hasEOP' = st.hasEOP
           /\ labels' = st.labels
           /\ temp_address' = st.temp_address
    /\ pc' = "eop"
    /\ UNCHANGED <<script, lines, address, hasInvalidLabel,
                   hasInvalidOperation, output_file, translation, console, ret>>

\* lines 74-79 with the bug of printing the error and going on
NoEOP_NoReturn ==
    /\ pc = "eop"
    /\ ~hasEOP
    /\ console' = Append(console, Msg("Error: No EOP found", EmptyStr))
    /\ pc' = "step4"
    /\ UNCHANGED <<script, lines, address, temp_address, hasEOP, labels,
                   hasInvalidLabel, hasInvalidOperation, output_file,
                   translation, ret>>

\* lines 74-79
NoEOP ==
    /\ pc = "eop"
    /\ ~hasEOP
    /\ Fail(<<Msg("Error: No EOP found", EmptyStr)>>)
    /\ UNCHANGED <<script, lines, address, temp_address, hasEOP, labels,
                   hasInvalidLabel, hasInvalidOperation, output_file,
                   translation>>

\* Step 4, lines 82-97
CheckLabels ==
    /\ pc = "eop"
    /\ hasEOP
    /\ console' = console \o UnknownLabelLoop(lines, labels, 1)
    /\ hasInvalidLabel' = (UnknownLabelLoop(lines, labels, 1) # <<>>)
    /\ pc' = "step4"
    /\ UNCHANGED <<script, lines, address, temp_address, hasEOP, labels,
                   hasInvalidOperation, output_file, translation, ret>>

\* lines 99-102
InvalidLabelExit ==
    /\ pc = "step4"
    /\ hasInvalidLabel
    /\ Fail(<<>>)
    /\ UNCHANGED <<script, lines, address, temp_address, hasEOP, labels,
                   hasInvalidLabel, hasInvalidOperation, output_file,
                   translation>>

\* lines 104-130
CheckOperations ==
    /\ pc = "step4"
    /\ ~hasInvalidLabel
    /\ console' = console \o OperationLoop(lines, labels, 1)
    /\ hasInvalidOperation' = (OperationLoop(lines, labels, 1) # <<>>)
    /\ pc' = "checked"
    /\ UNCHANGED <<script, lines, address, temp_address, hasEOP, labels,
                   hasInvalidLabel, output_file, translation, ret>>

\* lines 131-134
InvalidOperationExit ==
    /\ pc = "checked"
    /\ hasInvalidOperation
    /\ Fail(<<>>)
    /\ UNCHANGED <<script, lines, address, temp_address, hasEOP, labels,
                   hasInvalidLabel, hasInvalidOperation, output_file,
                   translation>>

\* line 137: fopen("translation.txt", "w") gives an empty file
OpenOutput ==
    /\ pc = "checked"
    /\ ~hasInvalidOperation
    /\ output_file' = "open"
    /\ translation' = <<>>
    /\ pc' = "print"
    /\ UNCHANGED <<script, lines, address, temp_address, hasEOP, labels,
                   hasInvalidLabel, hasInvalidOperation, console, ret>>

\* lines 137-142: fopen returns NULL
OpenOutputNull ==
    /\ pc = "checked"
    /\ ~hasInvalidOperation
    /\ output_file' = "null"
    /\ Fail(<<Msg("Error opening output file", EmptyStr)>>)
    /\ UNCHANGED <<script, lines, address, temp_address, hasEOP, labels,
                   hasInvalidLabel, hasInvalidOperation, translation>>

\* lines 144-223: the print loop, fclose, return 1
PrintCode ==
    /\ pc = "print"
    /\ \E stale \in Stale :
          LET st == PrintLoop(lines, labels, stale, 1,
                        [written |-> translation, printed |-> <<>>,
                         address |-> address])
          IN  /\ translation' = st.written
              /\ console' = console \o st.printed
              /\ address' = st.address
    /\ output_file' = "closed"
    /\ ret' = 1
    /\ pc' = "done"
    /\ UNCHANGED <<script, lines, temp_address, hasEOP, labels,
                   hasInvalidLabel, hasInvalidOperation>>

Next ==
    \/ ProcessFile
    \/ ProcessFileNull
    \/ SetAddress
    \/ BuildLabels
    \/ NoEOP
    \/ CheckLabels
    \/ InvalidLabelExit
    \/ CheckOperations
    \/ InvalidOperationExit
    \/ OpenOutput
    \/ OpenOutputNull
    \/ PrintCode

Spec == Init /\ [][Next]_vars

-----------------------------------------------------------------------------
(* Vocabulary of the properties *)

Done == pc = "done"
Succeeded == pc = "done" /\ ret = 1

\* the instruction lines: every line but line 0 (C indices)
InstrIdx == 1..(Len(lines) - 1)
Ln(i) == lines[i + 1]

\* "0x" followed only by hexadecimal digits, and the number it denotes
IsHexLiteral(s) ==
    /\ Has0xPrefix(s)
    /\ \A k \in 3..Len(s) : DigitVal(s[k]) \in 0..15
LiteralValue(s) == Digits(SubSeq(s, 3, Len(s)), 16, 0)

\* the base address: the ORG directive of line 0, else 0
Base ==
    IF lines # <<>> /\ lines[1].label = s_ORG
    THEN strtol0(lines[1].operation) ELSE 0

\* the address of instruction line i: two per instruction from the base
InstrAddress(i) == Base + 2 * (i - 1)

\* the instruction lines that declare the label name
Declarations(name) == { j \in InstrIdx : Ln(j).label = name }
Declared(name) == name # EmptyStr /\ Declarations(name) # {}

KnownMnemonic(operation) == get_opcode(operation).opcode # -1
HasEncodedOperand(operation) == get_opcode(operation).addBoolean

\* the lines of translation.txt that carry the address of instruction line i
EmittedFor(i) ==
    { k \in 1..Len(translation) :
        translation[k].addr0 = Fmt0x02x(InstrAddress(i)) }

\* the value a reader of the listing takes from a "0x.." field
ByteValue(text) == IF IsHexLiteral(text) THEN LiteralValue(text) ELSE -1

Printed(kind, arg) ==
    \E k \in 1..Len(console) : console[k].msg = kind /\ console[k].arg = arg

FileRead == ~Printed("Error reading lines", EmptyStr)
NothingWritten == translation = <<>> /\ output_file = "closed"

UnknownLabelAt(i) ==
    /\ Ln(i).operand # EmptyStr
    /\ ~IsHexLiteral(Ln(i).operand)
    /\ ~Declared(Ln(i).operand)

IllegalLabelAt(i) == ~IsBranch(Ln(i).operation) /\ Declared(Ln(i).operand)

EOPLines ==
    { i \in InstrIdx : Ln(i).label = s_EOP \/ Ln(i).operation = s_EOP }

-----------------------------------------------------------------------------
(* C1 *)

WellFormed ==
    /\ \A i \in InstrIdx :
          /\ KnownMnemonic(Ln(i).operation)
          /\ \/ Ln(i).operand = EmptyStr
             \/ IsHexLiteral(Ln(i).operand)
             \/ Declared(Ln(i).operand)
          /\ Declared(Ln(i).operand) => IsBranch(Ln(i).operation)
    /\ Cardinality(EOPLines) = 1

\* C1: a well-formed program (known mnemonics; operands empty, hex literals
\* or declared labels; label operands only on branches; exactly one EOP)
\* is assembled with success into Len(lines) - 1 encoded lines, the k-th
\* of them at address base + 2 * k (k counted from 0).
C1_OneLinePerInstruction ==
    (Done /\ FileRead /\ output_file # "null" /\ WellFormed) =>
        /\ ret = 1
        /\ Len(translation) = Len(lines) - 1
        /\ \A k \in 1..Len(translation) :
              /\ translation[k].tag = "code"
              /\ translation[k].addr0 = Fmt0x02x(Base + 2 * (k - 1))

-----------------------------------------------------------------------------
(* C2 *)

BranchToLabel(i) == IsBranch(Ln(i).operation) /\ Declared(Ln(i).operand)

\* C2: after a successful run every branch instruction whose operand is a
\* declared label has exactly one line in the listing, and the operand byte
\* of that line is the address of a line that declares the label -- of the
\* line that declares it when only one does -- whether that line comes
\* before or after the branch.
C2_BranchTargetIsLabelAddress ==
    Succeeded =>
        \A i \in InstrIdx : BranchToLabel(i) =>
            /\ Cardinality(EmittedFor(i)) = 1
            /\ \A k \in EmittedFor(i) :
                  /\ translation[k].tag = "code"
                  /\ ByteValue(translation[k].byte1) \in
                        { InstrAddress(j) : j \in Declarations(Ln(i).operand) }

\* a successful run with a forward reference: the label is declared only
\* after the branch that names it
C2_Witness ==
    /\ Succeeded
    /\ \E i \in InstrIdx :
          /\ BranchToLabel(i)
          /\ \A j \in Declarations(Ln(i).operand) : j > i
          /\ \E k \in EmittedFor(i) :
                ByteValue(translation[k].byte1) > InstrAddress(i)

-----------------------------------------------------------------------------
(* C3 *)

PlainHexAt(i) ==
    /\ KnownMnemonic(Ln(i).operation)
    /\ ~HasEncodedOperand(Ln(i).operation)
    /\ IsHexLiteral(Ln(i).operand)
    /\ ~Declared(Ln(i).operand)

\* C3: after a successful run every instruction without encoded operand
\* whose operand is a hex literal (and no label of that spelling exists) has
\* the literal's value as its second byte, and the listing holds no
\* "Unknown Label" line.
C3_HexLiteralRoundTrip ==
    Succeeded =>
        /\ \A i \in InstrIdx : PlainHexAt(i) =>
              \E k \in EmittedFor(i) :
                 /\ translation[k].tag = "code"
                 /\ ByteValue(translation[k].byte1) = LiteralValue(Ln(i).operand)
        /\ (\A i \in InstrIdx : Ln(i).operand # EmptyStr => PlainHexAt(i)) =>
              \A k \in 1..Len(translation) : translation[k].tag # "unknown"

-----------------------------------------------------------------------------
(* C4 *)

\* C4: once the EOP check has passed, every instruction line whose operand
\* is not empty, not "0x" followed only by hexadecimal digits and not a
\* declared label is reported as unknown label with its text, and the run
\* fails with nothing written.
C4_OnlyWellFormedOperandsAccepted ==
    (Done /\ FileRead /\ hasEOP) =>
        \A i \in InstrIdx : UnknownLabelAt(i) =>
            /\ Printed("Error: Unknown Label", Ln(i).operand)
            /\ ret = 0
            /\ NothingWritten

-----------------------------------------------------------------------------
(* C5 *)

PassedLabelCheck == Done /\ FileRead /\ hasEOP /\ ~hasInvalidLabel

\* C5: a program that passed the EOP and unknown-label checks and has a
\* declared label as operand of a non-branch instruction is rejected: an
\* invalid-operand error names each such line and nothing is written;
\* while a program of known mnemonics that has its label operands on
\* branches only is assembled with success.
C5_LabelOperandOnlyOnBranches ==
    PassedLabelCheck =>
        /\ \A i \in InstrIdx : IllegalLabelAt(i) =>
              /\ Printed("Error: Invalid operand for instruction", Ln(i).operation)
              /\ ret = 0
              /\ NothingWritten
        /\ ( /\ \E i \in InstrIdx : BranchToLabel(i)
             /\ \A i \in InstrIdx : ~IllegalLabelAt(i)
             /\ \A i \in InstrIdx : KnownMnemonic(Ln(i).operation)
             /\ output_file # "null" ) => ret = 1

-----------------------------------------------------------------------------
(* C6 *)

NoEOPInFile ==
    \A i \in 1..Len(lines) :
        lines[i].label # s_EOP /\ lines[i].operation # s_EOP

\* C6: when no line of the file has EOP as label or operation, the run
\* never reaches the operand or mnemonic validation nor the output, and it
\* ends in failure right after pass 1 with the missing-EOP message as the
\* last thing printed and nothing written.
C6_MissingEOPAborts ==
    (FileRead /\ NoEOPInFile) =>
        /\ pc \in {"start", "step2", "step3", "eop", "done"}
        /\ ~hasInvalidLabel /\ ~hasInvalidOperation
        /\ NothingWritten
        /\ Done =>
              /\ ret = 0
              /\ console # <<>>
              /\ console[Len(console)] = Msg("Error: No EOP found", EmptyStr)
              /\ \A k \in 1..Len(console) :
                    console[k].msg \in {"Label, Operation, Operand",
                                        "Error: No EOP found"}

\* a file of several lines without EOP, one of them with an operand no
\* label explains, has been turned down
C6_Witness ==
    /\ Done /\ FileRead /\ NoEOPInFile
    /\ Len(lines) >= 3
    /\ \E i \in InstrIdx : UnknownLabelAt(i)
    /\ ret = 0

-----------------------------------------------------------------------------
(* C7 *)

\* C7: when a program with EOP has an unknown-label operand on one line and
\* an unknown mnemonic or an illegal label operand on another, the finished
\* run has reported both, has failed and has written nothing.
C7_AllChecksRunBeforeAbort ==
    (Done /\ FileRead /\ hasEOP) =>
        \A i, j \in InstrIdx :
            ( /\ i # j
              /\ UnknownLabelAt(i)
              /\ ~KnownMnemonic(Ln(j).operation) \/ IllegalLabelAt(j) ) =>
                /\ Printed("Error: Unknown Label", Ln(i).operand)
                /\ ~KnownMnemonic(Ln(j).operation) =>
                      Printed("Invalid instruction", Ln(j).label)
                /\ IllegalLabelAt(j) =>
                      Printed("Error: Invalid operand for instruction",
                              Ln(j).operation)
                /\ ret = 0
                /\ NothingWritten

-----------------------------------------------------------------------------
(* C8 *)

FirstLineIsInstruction == lines # <<>> /\ lines[1].label # s_ORG

\* C8: when line 0 is no ORG directive it is an instruction like any other:
\* the base address is 0, pass 1 binds its label to address 0 and counts its
\* EOP, and a successful run has its two bytes at address 0 in the listing.
C8_FirstLineProcessedWithoutORG ==
    (FirstLineIsInstruction /\ pc \in {"eop", "step4", "checked", "print", "done"}) =>
        /\ pc # "done" => address = 0
        /\ temp_address = 2 * Len(lines)
        /\ lines[1].label # EmptyStr =>
              \E k \in 1..Len(labels) : labels[k] = LABEL(lines[1].label, 0)
        /\ lines[1].operation = s_EOP => hasEOP
        /\ Succeeded =>
              /\ Len(translation) >= 1
              /\ translation[1].addr0 = Fmt0x02x(0)
              /\ translation[1].byte0 =
                    Fmt0x02x(get_opcode(lines[1].operation).opcode)

-----------------------------------------------------------------------------
(* C9 *)

EncodedHexAt(i) ==
    /\ HasEncodedOperand(Ln(i).operation)
    /\ IsHexLiteral(Ln(i).operand)
    /\ ~Declared(Ln(i).operand)

\* C9: after a successful run every instruction with encoded operand (WM,
\* RM, WIO and the branches) whose operand is a hex literal of value v has
\* exactly one line in the listing, with the opcode as first byte and
\* v mod 256 as second byte.
C9_OpcodeHighOperandLow ==
    Succeeded =>
        \A i \in InstrIdx : EncodedHexAt(i) =>
            /\ Cardinality(EmittedFor(i)) = 1
            /\ \A k \in EmittedFor(i) :
                  /\ translation[k].tag = "code"
                  /\ ByteValue(translation[k].byte0) =
                        get_opcode(Ln(i).operation).opcode
                  /\ ByteValue(translation[k].byte1) =
                        LiteralValue(Ln(i).operand) % 256

-----------------------------------------------------------------------------
(* C10 *)

Max(S) == CHOOSE x \in S : \A y \in S : y <= x
Min(S) == CHOOSE x \in S : \A y \in S : x <= y

DeclaredTwice(name) == Cardinality(Declarations(name)) >= 2

\* the encoder looks the operand of line i up in the label table
ResolvedByEncoder(i) ==
    /\ Declared(Ln(i).operand)
    /\ IsBranch(Ln(i).operation) \/ ~HasEncodedOperand(Ln(i).operation)

\* the run failed for a reason the program gives apart from its duplicates
HasOtherError ==
    \/ output_file = "null"
    \/ \E i \in InstrIdx :
          \/ ~KnownMnemonic(Ln(i).operation)
          \/ IsLabelOperand(Ln(i).operand) /\ ~Declared(Ln(i).operand)
          \/ IsLabelOperand(Ln(i).operand) /\ ~IsBranch(Ln(i).operation)

\* C10 as stated: with a label declared on several lines, every reference
\* the encoder resolves gets the address of the latest declaration.
C10_LatestDeclarationWins ==
    Succeeded =>
        \A i \in InstrIdx :
            (ResolvedByEncoder(i) /\ DeclaredTwice(Ln(i).operand)) =>
                \A k \in EmittedFor(i) :
                    ByteValue(translation[k].byte1) =
                        InstrAddress(Max(Declarations(Ln(i).operand)))

\* C10 amended: a label declared on several lines raises no error of its
\* own (a run that fails has another error to show), and every reference
\* the encoder resolves gets the address of the earliest declaration.
C10_EarliestDeclarationWins ==
    (Done /\ FileRead /\ hasEOP /\ \E i \in InstrIdx : DeclaredTwice(Ln(i).label)) =>
        /\ ret = 0 => HasOtherError
        /\ ret = 1 =>
              \A i \in InstrIdx :
                  (ResolvedByEncoder(i) /\ DeclaredTwice(Ln(i).operand)) =>
                      /\ EmittedFor(i) # {}
                      /\ \A k \in EmittedFor(i) :
                            ByteValue(translation[k].byte1) =
                                InstrAddress(Min(Declarations(Ln(i).operand)))

\* a successful run in which a branch names a label that two lines declare
C10_Witness ==
    /\ Succeeded
    /\ \E i \in InstrIdx :
          /\ IsBranch(Ln(i).operation)
          /\ DeclaredTwice(Ln(i).operand)
          /\ EmittedFor(i) # {}

=============================================================================
